---- MODULE Spec2Model ----
(***************************************************************************)
(* Design-approval pipeline of aprv-ai-backend.                            *)
(*                                                                         *)
(* ApprovalService.background_process_design (app/services/                *)
(* approval_service.py) is modelled as one process per start_processing    *)
(* call.  Every action is the synchronous code that runs between two       *)
(* suspension points of the coroutine, together with the one store or      *)
(* network operation it awaits.  The page comparators that                 *)
(* validate_design_against_all_documents dispatches with                   *)
(* asyncio.create_task are processes of their own and keep running after   *)
(* the run that dispatched them has ended.                                 *)
(*                                                                         *)
(* The document store, the blob store, the PDF parser, the table           *)
(* extractor, the inference service and the retrieval indexer are          *)
(* external: their answers are drawn nondeterministically.                 *)
(***************************************************************************)
EXTENDS Integers, Sequences, FiniteSets, TLC

(***************************************************************************)
(* Bounds of the exploration.                                              *)
(***************************************************************************)
\* start_processing calls explored
MaxRuns == 2
\* largest page count of a guideline document
MaxPages == 3
\* largest page count on which more than one run is explored
RacePages == 0
\* store writes that fail in one behaviour of SpecFaults
MaxFaults == 2
\* largest page count of a guideline document in SpecFaults
FaultPages == 1
\* most embedded images of a page in SpecImages
MaxImages == 22
\* xref of the first image of a page in SpecImages: 1..MaxXref
MaxXref == 3
\* SpecQueue: largest rate_limit_rpm and max_tokens, longest queue, last
\* clock reading, and the fractions of a token that are counted
MaxRate == 2
MaxTokens == 2
MaxQueue == 2
MaxTime == 3
TokenUnit == 2

(***************************************************************************)
(* Program constants.                                                      *)
(***************************************************************************)
\* @retry(..., stop=stop_after_attempt(6))
stop_after_attempt == 6

\* line 295: `if len(images) > 20`
image_limit == 20

\* what the OpenAI client raises at 197: a rate limit, timeout or connection
\* error (transient), or a bad request or authentication error (permanent)
Errors == {"transient", "permanent"}

\* TaskStatus.<member>.name
IN_PROGRESS == "IN_PROGRESS"
COMPLETE == "COMPLETE"
FAILED == "FAILED"

\* Python None, for string-valued fields
None == "None"
\* reading an attribute the object does not have (AttributeError)
NoAttr == "NoAttr"
\* Python None, for ids that are task ids or generated-file ids
NoId == 0

ConvIds == {"c1", "c2"}
Runs == 1..MaxRuns
\* Optional[bool] guideline_achieved of BrandGuidelineReviewResource
Verdicts == {"True", "False", None}

VARIABLES
    conversations,   \* store: conversation id -> Conversation document
    fs,              \* blob store: uploaded file id -> content
    fs_generated,    \* blob store: generated txt file id -> report blocks
    tasks,           \* store: task id -> Task document
    reviews,         \* store: Review documents in insertion order
    embeddings,      \* runs whose report chunks insert_to_rag has inserted
    pc,              \* position of each background_process_design call
    conversation_id, \* its argument
    conversation,    \* its local `conversation`
    task,            \* its local `task`
    page_data_list,  \* local of validate_design_against_all_documents
    page_tasks,      \* the asyncio tasks created for the pages
    done_order,      \* page tasks that returned, in completion order
    doc,             \* the fitz.Document handle of each run
    write_failures,  \* store writes that may still fail (0 throughout Spec)
    inference_result_resources, \* what asyncio.gather returned
    images,          \* get_page_images_as_bytes: what page.get_images returned
    guideline_image_bytes_list, \* get_page_images_as_bytes: what it returns
    image_pc,        \* position of the get_page_images_as_bytes call
    rate_limit_rpm,  \* RateLimitedQueueManager fields
    max_tokens,
    queue,
    last_checked,
    available_tokens,
    now,             \* the clock monotonic() reads
    queue_pc         \* position of the process_requests loop

\* get_page_images_as_bytes on its own (SpecImages)
image_vars == <<images, guideline_image_bytes_list, image_pc>>

\* RateLimitedQueueManager on its own (SpecQueue)
queue_vars == <<rate_limit_rpm, max_tokens, queue, last_checked,
                available_tokens, now, queue_pc>>

pipeline_vars ==
    <<conversations, fs, fs_generated, tasks, reviews, embeddings, pc,
      conversation_id, conversation, task, page_data_list, page_tasks,
      done_order, doc, write_failures, inference_result_resources>>

vars == <<pipeline_vars, image_vars, queue_vars>>

store_vars ==
    <<conversations, fs, fs_generated, tasks, reviews, embeddings,
      write_failures>>

(***************************************************************************)
(* Documents.                                                              *)
(***************************************************************************)
\* find_one found nothing
NoConversation ==
    [exists |-> FALSE, guidelines_id |-> None, design_id |-> None,
     design_process_task_id |-> NoId]

NoTask ==
    [exists |-> FALSE, id |-> NoId, conversation_id |-> None,
     status |-> None, generated_txt_id |-> NoId, created_at |-> 0]

MissingFile == [kind |-> "missing", pages |-> 0]

\* created_at = datetime.utcnow() of a new Task, as a logical time: later
\* than the created_at of every stored Task
utcnow == Cardinality({t \in Runs : tasks[t].exists}) + 1

\* the Task document of the first run is written again instead of a new one
NewTask_reused(r, cid) ==
    [exists |-> TRUE, id |-> 1, conversation_id |-> cid,
     status |-> IN_PROGRESS, generated_txt_id |-> NoId, created_at |-> utcnow]

\* Task(id=ObjectId(), conversation_id=..., status=TaskStatus.IN_PROGRESS.name)
NewTask(r, cid) ==
    [exists |-> TRUE, id |-> r, conversation_id |-> cid,
     status |-> IN_PROGRESS, generated_txt_id |-> NoId, created_at |-> utcnow]

\* `not x` of an Optional file id
Falsy(x) == x = None

(***************************************************************************)
(* LLMPageInferenceResource.__str__: `self.page_number or 'N/A'`,          *)
(* `self.given_text or 'N/A'` and `guideline_achieved or ""`.              *)
(***************************************************************************)
Str(resource) ==
    [page_number |->
        IF resource.page_number = 0 THEN "N/A"
        ELSE ToString(resource.page_number),
     given_text |->
        IF resource.given_text = "" THEN "N/A" ELSE resource.given_text,
     review_achieved |->
        IF resource.inference_response = "True" THEN "True" ELSE ""]

\* results collected as the tasks complete (asyncio.as_completed)
gather_as_completed(ptasks, completion) ==
    [i \in 1..Len(completion) |-> ptasks[completion[i]].result]

\* asyncio.gather(*tasks): results in the order of `tasks`
gather(ptasks, completion) ==
    [i \in 1..Len(ptasks) |-> ptasks[i].result]

\* gather(..., return_exceptions=True): returns once every task has settled
all_settled(ptasks) ==
    \A i \in DOMAIN ptasks : ptasks[i].state \in {"done", "failed"}

\* gather returns its result list once every task has returned
all_returned(ptasks) ==
    \A i \in DOMAIN ptasks : ptasks[i].state = "done"

(***************************************************************************)
(* Initial state: conversation c1 is stored, c2 is not; c1's references    *)
(* and the blobs they name are any of the cases the code distinguishes.    *)
(***************************************************************************)
GuidelineBlobs ==
    {MissingFile, [kind |-> "corrupt", pages |-> 0]}
        \cup {[kind |-> "pdf", pages |-> n] : n \in 0..MaxPages}

DesignBlobs == {MissingFile, [kind |-> "image", pages |-> 0]}

\* no start_processing call has been made
InitRuns ==
    /\ fs_generated = <<>>
    /\ tasks = [r \in Runs |-> NoTask]
    /\ reviews = <<>>
    /\ embeddings = {}
    /\ pc = [r \in Runs |-> "idle"]
    /\ conversation_id = [r \in Runs |-> None]
    /\ conversation = [r \in Runs |-> NoConversation]
    /\ task = [r \in Runs |-> NoTask]
    /\ page_data_list = [r \in Runs |-> <<>>]
    /\ page_tasks = [r \in Runs |-> <<>>]
    /\ done_order = [r \in Runs |-> <<>>]
    /\ doc = [r \in Runs |-> "unopened"]
    /\ inference_result_resources = [r \in Runs |-> <<>>]

\* get_page_images_as_bytes is not being called
NoImageCall ==
    /\ images = <<>>
    /\ guideline_image_bytes_list = <<>>
    /\ image_pc = "off"

\* no RateLimitedQueueManager has been constructed
NoQueueManager ==
    /\ rate_limit_rpm = 0
    /\ max_tokens = 0
    /\ queue = <<>>
    /\ last_checked = 0
    /\ available_tokens = 0
    /\ now = 0
    /\ queue_pc = "off"

Init ==
    /\ \E g \in {NoAttr, None, "g1"}, d \in {None, "d1"} :
          conversations =
              [c \in ConvIds |->
                  IF c = "c1"
                  THEN [exists |-> TRUE, guidelines_id |-> g, design_id |-> d,
                        design_process_task_id |-> NoId]
                  ELSE NoConversation]
    /\ \E gb \in GuidelineBlobs, db \in DesignBlobs :
          fs = [f \in {"g1", "d1"} |-> IF f = "g1" THEN gb ELSE db]
    /\ InitRuns
    /\ write_failures = 0
    /\ NoImageCall
    /\ NoQueueManager

\* the same initial states on guideline documents of at most FaultPages
\* pages, with MaxFaults store writes that may raise
InitFaults ==
    /\ \E g \in {NoAttr, None, "g1"}, d \in {None, "d1"} :
          conversations =
              [c \in ConvIds |->
                  IF c = "c1"
                  THEN [exists |-> TRUE, guidelines_id |-> g, design_id |-> d,
                        design_process_task_id |-> NoId]
                  ELSE NoConversation]
    /\ \E gb \in {b \in GuidelineBlobs : b.pages <= FaultPages},
          db \in DesignBlobs :
          fs = [f \in {"g1", "d1"} |-> IF f = "g1" THEN gb ELSE db]
    /\ InitRuns
    /\ write_failures = MaxFaults
    /\ NoImageCall
    /\ NoQueueManager

(***************************************************************************)
(* engine.save(task): the whole local Task object replaces the stored one. *)
(***************************************************************************)
Save(t) == [tasks EXCEPT ![t.id] = t]

\* the handler leaves the status as it is
fail_unset(t) == t

\* lines 228 (183, 194): task.status = TaskStatus.FAILED.name
fail(t) == [t EXCEPT !.status = FAILED]

\* lines 222-223: task.status = COMPLETE; task.generated_txt_id = txt_file_id
complete(t, txt_file_id) ==
    [t EXCEPT !.status = COMPLETE, !.generated_txt_id = txt_file_id]

\* the outcomes of one store write: it returns (TRUE) or, while a write
\* failure is left after the `spent` ones this step has used, raises (FALSE)
WriteOutcomes(spent) ==
    IF write_failures > spent THEN BOOLEAN ELSE {TRUE}

\* task.status = FAILED; await engine.save(task), after `spent` writes of
\* this step have raised.  `saves` is the number of times the code gets to
\* that save: 1 at 183-186 and at 226-230, where a raise leaves the
\* coroutine; 2 at 194-197, where a raise is caught at 226.  The Task is
\* stored unless every one of them raises.
FailTaskAfter(r, spent, saves) ==
    \E raised \in 0..saves :
       /\ raised <= write_failures - spent
       /\ task' = [task EXCEPT ![r] = fail(@)]
       /\ tasks' = IF raised < saves THEN Save(task'[r]) ELSE tasks
       /\ write_failures' = write_failures - spent - raised
       /\ pc' = [pc EXCEPT ![r] = "done"]

\* returning without recording the failure
FailTask_unrecorded(r) ==
    /\ pc' = [pc EXCEPT ![r] = "done"]
    /\ UNCHANGED <<task, tasks, write_failures>>

\* lines 226-230 (and 183-186): task.status = FAILED; save; return
FailTask(r) == FailTaskAfter(r, 0, 1)

(***************************************************************************)
(* process_design: the API handler schedules background_process_design.    *)
(* Runs are started in index order; a second run is explored only on       *)
(* guideline documents of at most RacePages pages, and the last of MaxRuns *)
(* runs only on documents without pages.                                   *)
(***************************************************************************)
RunLimit ==
    IF fs["g1"].pages > RacePages THEN 1
    ELSE IF fs["g1"].pages > 0 THEN MaxRuns - 1
    ELSE MaxRuns

process_design(r, cid) ==
    /\ pc[r] = "idle"
    /\ r <= RunLimit
    /\ \A q \in Runs : q < r => pc[q] # "idle"
    /\ cid # ""
    /\ conversation_id' = [conversation_id EXCEPT ![r] = cid]
    /\ pc' = [pc EXCEPT ![r] = "find_conversation"]
    /\ UNCHANGED <<store_vars, conversation, task, page_data_list,
                   page_tasks, done_order, doc, inference_result_resources,
                   image_vars, queue_vars>>

\* line 178: conversation = await engine.find_one(Conversation, ...)
find_conversation(r) ==
    /\ pc[r] = "find_conversation"
    /\ conversation' =
          [conversation EXCEPT ![r] = conversations[conversation_id[r]]]
    /\ pc' = [pc EXCEPT ![r] = "create_task"]
    /\ UNCHANGED <<store_vars, conversation_id, task, page_data_list,
                   page_tasks, done_order, doc, inference_result_resources,
                   image_vars, queue_vars>>

\* line 180 and create_task (261-281): the Task is built and saved whether
\* or not the conversation was found
create_task(r) ==
    /\ pc[r] = "create_task"
    /\ conversation_id[r] # None
    /\ \E saved \in WriteOutcomes(0) :
          IF saved
          THEN /\ task' = [task EXCEPT ![r] = NewTask(r, conversation_id[r])]
               /\ tasks' = Save(task'[r])
               /\ pc' = [pc EXCEPT ![r] = "check_references"]
               /\ UNCHANGED write_failures
          ELSE \* 276 raises, 278-280 re-raise out of the coroutine (180 is
               \* outside the try block): the run ends without a Task
               /\ write_failures' = write_failures - 1
               /\ pc' = [pc EXCEPT ![r] = "done"]
               /\ UNCHANGED <<task, tasks>>
    /\ UNCHANGED <<conversations, fs, fs_generated, reviews, embeddings,
                   conversation_id, conversation, page_data_list, page_tasks,
                   done_order, doc, inference_result_resources,
                   image_vars, queue_vars>>

\* lines 182-200
check_references(r) ==
    /\ pc[r] = "check_references"
    /\ LET conv == conversation[r] IN
       IF \/ ~conv.exists                      \* 182: not conversation
          \/ conv.guidelines_id = NoAttr       \* 190 raises, caught at 226
       THEN /\ FailTask(r)
            /\ UNCHANGED <<conversations, conversation>>
       ELSE IF Falsy(conv.guidelines_id) \/ Falsy(conv.design_id)
       THEN \* 193-197: a raise of the save at 196 is caught at 226
            /\ FailTaskAfter(r, 0, 2)
            /\ UNCHANGED <<conversations, conversation>>
       ELSE \* 199-200: the local snapshot is saved with the new task id
            /\ conversation' =
                  [conversation EXCEPT ![r].design_process_task_id = task[r].id]
            /\ \E saved \in WriteOutcomes(0) :
                  IF saved
                  THEN /\ conversations' =
                             [conversations EXCEPT
                                ![conversation_id[r]] = conversation'[r]]
                       /\ pc' = [pc EXCEPT ![r] = "extract"]
                       /\ UNCHANGED <<task, tasks, write_failures>>
                  ELSE \* 200 raises, caught at 226
                       /\ FailTaskAfter(r, 1, 1)
                       /\ UNCHANGED conversations
    /\ UNCHANGED <<fs, fs_generated, reviews, embeddings, conversation_id,
                   page_data_list, page_tasks, done_order, doc,
                   inference_result_resources,
                   image_vars, queue_vars>>

\* only the guidelines file is checked
FilesFound_guidelines_only(r) ==
    fs[conversation[r].guidelines_id].kind # "missing"

\* get_existing_files_as_bytes (232-259) raises when a blob is not found
FilesFound(r) ==
    /\ fs[conversation[r].guidelines_id].kind # "missing"
    /\ fs[conversation[r].design_id].kind # "missing"

\* page.get_text("text").strip() of the guideline documents explored: the
\* even pages are introductory prose, the odd pages state a rule
PageText(page_num) ==
    IF page_num % 2 = 0 THEN "About our brand"
    ELSE "The logo must not be altered"

\* lines 82-96: the LLMPageInferenceResource built for one page
PageResource(page_num) ==
    [page_number |-> page_num, given_text |-> PageText(page_num)]

\* lines 202 and 69-104: read both blobs, open the PDF, build one page
\* resource per page, then await the table extractor
extract_pages(r) ==
    /\ pc[r] = "extract"
    /\ \E tables_ok \in BOOLEAN :
          LET pdf == fs[conversation[r].guidelines_id] IN
          IF FilesFound(r) /\ pdf.kind = "pdf" /\ tables_ok
          THEN \* 72-96: the handle is opened and every page is loaded and
               \* read; the handle is left open
               /\ page_data_list' =
                     [page_data_list EXCEPT
                        ![r] = [i \in 1..pdf.pages |-> PageResource(i - 1)]]
               /\ doc' = [doc EXCEPT ![r] = "open"]
               /\ pc' = [pc EXCEPT ![r] = "dispatch"]
               /\ UNCHANGED <<task, tasks, write_failures>>
          ELSE \* 248/252 raise, fitz.open raises or the table extractor
               \* raises: caught at 226
               /\ FailTask(r)
               /\ doc' = [doc EXCEPT
                            ![r] = IF FilesFound(r) /\ pdf.kind = "pdf"
                                   THEN "closed"  \* 99 raised, 117 closes
                                   ELSE @]        \* no handle was opened
               /\ UNCHANGED page_data_list
    /\ UNCHANGED <<conversations, fs, fs_generated, reviews, embeddings,
                   conversation_id, conversation, page_tasks, done_order,
                   inference_result_resources,
                   image_vars, queue_vars>>

\* a page task that has not returned
NewPageTask(page) ==
    [state |-> "infer", attempt_number |-> 0, last_error |-> None,
     content |-> None,
     page_number |-> page.page_number,
     result |-> [page_number |-> page.page_number,
                 given_text |-> page.given_text, inference_response |-> None]]

\* lines 106-113: one asyncio task per page, then await gather
dispatch(r) ==
    /\ pc[r] = "dispatch"
    /\ page_tasks' =
          [page_tasks EXCEPT
             ![r] = [i \in 1..Len(page_data_list[r]) |->
                        NewPageTask(page_data_list[r][i])]]
    /\ pc' = [pc EXCEPT ![r] = "gather"]
    /\ UNCHANGED <<store_vars, conversation_id, conversation, task,
                   page_data_list, done_order, doc, inference_result_resources,
                   image_vars, queue_vars>>

(***************************************************************************)
(* A page task: process_page_content (122-160), compare_design_against_page*)
(* (307-354) and the retried get_openai_multi_images_response              *)
(* (openai_service.py 176-229).  Page tasks are not cancelled when the     *)
(* gather that awaits them raises, so they run whatever pc[r] is.          *)
(***************************************************************************)
SetPage(r, i, p) == page_tasks' = [page_tasks EXCEPT ![r][i] = p]

\* the stop condition of the retry decorator, tested after a raised attempt
\* with the number of attempts made so far, this one included
stop_late(attempt_number) == attempt_number > stop_after_attempt

\* @retry(stop=stop_after_attempt(6)): stop once 6 attempts were made
stop(attempt_number) == attempt_number >= stop_after_attempt

\* lines 176-229 under 338-354: one attempt of the inference call
infer(r, i) ==
    /\ i \in DOMAIN page_tasks[r]
    /\ page_tasks[r][i].state = "infer"
    /\ LET p == page_tasks[r][i]
           n == p.attempt_number + 1
       IN \/ \E v \in Verdicts :       \* 222: message.parsed is returned,
                                       \* the retry state is dropped
                SetPage(r, i, [p EXCEPT !.attempt_number = 0,
                                        !.last_error = None,
                                        !.content = v, !.state = "save"])
          \/ \* 218-220 return None: 354 reads the unbound tokens_used (or
             \* 141-142 raises), the page task fails without a retry
             \* (the call returned: its retry state is dropped as above)
             SetPage(r, i, [p EXCEPT !.attempt_number = 0,
                                     !.last_error = None, !.state = "failed"])
          \/ \* 227-229 re-raise: the decorator names no retry condition, so
             \* any exception is retried until stop, then RetryError is raised
             \E e \in Errors :
                SetPage(r, i, [p EXCEPT !.attempt_number = n,
                                        !.last_error = e,
                                        !.state = IF stop(n)
                                                  THEN "failed" ELSE "infer"])
    /\ UNCHANGED <<store_vars, pc, conversation_id, conversation, task,
                   page_data_list, done_order, doc, inference_result_resources,
                   image_vars, queue_vars>>

\* the Review numbered as the table extractor numbers pages (1-based)
NewReview_one_based(r, p) ==
    [conversation_id |-> conversation_id[r], page_number |-> p.page_number + 1,
     guideline_achieved |-> p.content, written_by |-> r]

\* the verdict stored as a plain bool: None becomes False
NewReview_coerced(r, p) ==
    [conversation_id |-> conversation_id[r], page_number |-> p.page_number,
     guideline_achieved |-> IF p.content = "True" THEN "True" ELSE "False",
     written_by |-> r]

\* the Review of lines 144-152; written_by is bookkeeping of this model,
\* the stored Review carries no run or task id
NewReview(r, p) ==
    [conversation_id |-> conversation_id[r], page_number |-> p.page_number,
     guideline_achieved |-> p.content, written_by |-> r]

\* one Review document per conversation, written over by every save
InsertReview_single(stored, review) ==
    IF stored = <<>> THEN <<review>>
    ELSE [stored EXCEPT ![Len(stored)] = review]

\* the Review inserted twice by one save
InsertReview_twice(stored, review) == Append(Append(stored, review), review)

\* engine.save of a Review with a fresh ObjectId: an insert
InsertReview(stored, review) == Append(stored, review)

\* lines 144-160: save the Review, build the result and return it
save_review(r, i) ==
    /\ i \in DOMAIN page_tasks[r]
    /\ page_tasks[r][i].state = "save"
    /\ LET p == page_tasks[r][i] IN
       \E saved \in WriteOutcomes(0) :
          IF saved
          THEN /\ reviews' = InsertReview(reviews, NewReview(r, p))
               /\ SetPage(r, i, [p EXCEPT !.state = "done",
                                          !.result.inference_response = p.content])
               /\ done_order' = [done_order EXCEPT ![r] = Append(@, i)]
               /\ UNCHANGED write_failures
          ELSE \* 144 raises: the page task fails
               /\ SetPage(r, i, [p EXCEPT !.state = "failed"])
               /\ write_failures' = write_failures - 1
               /\ UNCHANGED <<reviews, done_order>>
    /\ UNCHANGED <<conversations, fs, fs_generated, tasks, embeddings, pc,
                   conversation_id, conversation, task, page_data_list, doc,
                   inference_result_resources,
                   image_vars, queue_vars>>

\* line 113 raises the first exception of a page task; 115-118 re-raise,
\* 226-230 fail the Task
gather_raises(r) ==
    /\ pc[r] = "gather"
    /\ \E i \in DOMAIN page_tasks[r] : page_tasks[r][i].state = "failed"
    /\ doc' = [doc EXCEPT ![r] = "closed"]        \* 117: doc.close()
    /\ FailTask(r)
    /\ UNCHANGED <<conversations, fs, fs_generated, reviews, embeddings,
                   conversation_id, conversation, page_data_list, page_tasks,
                   done_order, inference_result_resources,
                   image_vars, queue_vars>>

\* the result list is not tested
not_results_skipped(results) == FALSE

\* line 210: `not llm_inference_per_page_resources or ... == []`
not_results(results) == results = <<>>

\* line 113 returns once every page task has returned; 210-224 store the
\* report and save the Task as COMPLETE
gather_returns(r) ==
    /\ pc[r] = "gather"
    /\ all_returned(page_tasks[r])
    /\ LET results == gather(page_tasks[r], done_order[r]) IN
       /\ inference_result_resources' =
             [inference_result_resources EXCEPT ![r] = results]
       /\ IF not_results(results)
          THEN \* 210-211 raise, caught at 226
               /\ FailTask(r)
               /\ UNCHANGED fs_generated
          ELSE \* 216-224; the generated file id of run r is r
               \E put \in WriteOutcomes(0) :
                  IF ~put
                  THEN \* 219 raises, caught at 226
                       /\ FailTaskAfter(r, 1, 1)
                       /\ UNCHANGED fs_generated
                  ELSE /\ fs_generated' =
                             (r :> [i \in 1..Len(results) |-> Str(results[i])])
                                @@ fs_generated
                       /\ \E saved \in WriteOutcomes(0) :
                             IF saved
                             THEN /\ task' = [task EXCEPT ![r] = complete(@, r)]
                                  /\ tasks' = Save(task'[r])
                                  /\ pc' = [pc EXCEPT ![r] = "insert_to_rag"]
                                  /\ UNCHANGED write_failures
                             ELSE \* 224 raises, caught at 226: the local
                                  \* Task keeps the report reference of 223
                                  \E raised \in 0..1 :
                                     /\ raised <= write_failures - 1
                                     /\ task' = [task EXCEPT
                                                   ![r] = fail(complete(@, r))]
                                     /\ tasks' = IF raised = 0
                                                 THEN Save(task'[r]) ELSE tasks
                                     /\ write_failures' =
                                           write_failures - 1 - raised
                                     /\ pc' = [pc EXCEPT ![r] = "done"]
    /\ UNCHANGED <<conversations, fs, reviews, embeddings, conversation_id,
                   conversation, page_data_list, page_tasks, done_order, doc,
                   image_vars, queue_vars>>

(***************************************************************************)
(* RagService.insert_to_rag (rag_service.py 51-84), awaited at line 225    *)
(* inside the try block of background_process_design.                      *)
(***************************************************************************)
\* the checks of lines 53-64 on the stored conversation and its current Task
RagSourceFile(cid) ==
    LET conv == conversations[cid]
        t == IF conv.design_process_task_id = NoId THEN NoTask
             ELSE tasks[conv.design_process_task_id]
    IN IF /\ conv.exists
          /\ t.exists
          /\ t.generated_txt_id \in DOMAIN fs_generated
       THEN t.generated_txt_id ELSE NoId

insert_to_rag(r) ==
    /\ pc[r] = "insert_to_rag"
    /\ \E indexer_ok \in BOOLEAN :
          LET source_file == RagSourceFile(conversation_id[r]) IN
          IF source_file # NoId /\ indexer_ok
          THEN /\ embeddings' = embeddings \cup {source_file}
               /\ pc' = [pc EXCEPT ![r] = "done"]
               /\ UNCHANGED <<task, tasks, write_failures>>
          ELSE \* 55/59/64 raise, or the embedding call or insert_many
               \* raises: caught at 226, lines 228-230
               /\ FailTask(r)
               /\ UNCHANGED embeddings
    /\ UNCHANGED <<conversations, fs, fs_generated, reviews, conversation_id,
                   conversation, page_data_list, page_tasks, done_order, doc,
                   inference_result_resources,
                   image_vars, queue_vars>>

(***************************************************************************)
(* process_status (app/api/conversation.py 58-72), the polling endpoint,   *)
(* as the response it sends for the stored state.                          *)
(***************************************************************************)
Response(code, task_id) == [status_code |-> code, task_id |-> task_id]

process_status(cid) ==
    LET conversation_of_task == conversations[cid]
        task_of_conversation == tasks[conversation_of_task.design_process_task_id]
    IN IF cid = "" THEN Response(400, NoId)                       \* 60-61
       ELSE IF ~conversation_of_task.exists
       THEN Response(500, NoId)          \* 65 reads an attribute of None
       ELSE IF conversation_of_task.design_process_task_id = NoId
       THEN Response(400, NoId)                                   \* 65-66
       ELSE IF task_of_conversation.status = IN_PROGRESS
       THEN Response(202, task_of_conversation.id)                \* 69-70
       ELSE IF task_of_conversation.status = COMPLETE
       THEN Response(200, task_of_conversation.id)                \* 71-72
       ELSE \* the handler ends without a return statement: FastAPI sends
            \* 200 with the body null
            Response(200, NoId)

(***************************************************************************)
(* get_process_result (app/api/conversation.py 75-88).  The handler tests  *)
(* the Task's report reference, which that revision names                  *)
(* generated_pdf_id and the Task model names generated_txt_id; it does not *)
(* look at the Task's status.  engine.find is called without a sort, so    *)
(* the Reviews come back in insertion order.                               *)
(***************************************************************************)
\* the conversation's Reviews as engine.find returns them
FindReviews(cid) == SelectSeq(reviews, LAMBDA v : v.conversation_id = cid)

Result(code, found) == [status_code |-> code, reviews |-> found]

get_process_result(task_id) ==
    LET task_of_conversation == tasks[task_id] IN
    IF task_id = NoId THEN Result(400, <<>>)                        \* 77-78
    ELSE IF ~task_of_conversation.exists
    THEN Result(500, <<>>)               \* 81 reads an attribute of None
    ELSE IF task_of_conversation.generated_txt_id = NoId
    THEN Result(500, <<>>)                                          \* 81-87
    ELSE Result(200, FindReviews(task_of_conversation.conversation_id))

Next ==
    \/ \E r \in Runs, cid \in ConvIds : process_design(r, cid)
    \/ \E r \in Runs : find_conversation(r)
    \/ \E r \in Runs : create_task(r)
    \/ \E r \in Runs : check_references(r)
    \/ \E r \in Runs : extract_pages(r)
    \/ \E r \in Runs : dispatch(r)
    \/ \E r \in Runs, i \in 1..(MaxPages + 1) : infer(r, i)
    \/ \E r \in Runs, i \in 1..(MaxPages + 1) : save_review(r, i)
    \/ \E r \in Runs : gather_raises(r)
    \/ \E r \in Runs : gather_returns(r)
    \/ \E r \in Runs : insert_to_rag(r)

Spec == Init /\ [][Next]_vars

\* the pipeline with store writes that may raise
SpecFaults == InitFaults /\ [][Next]_vars

\* the event loop resumes every coroutine whose awaited call has returned or
\* raised, and every awaited call does one or the other
LiveSpec == Spec /\ WF_vars(Next)

LiveSpecFaults == SpecFaults /\ WF_vars(Next)

(***************************************************************************)
(* get_page_images_as_bytes (approval_service.py 283-305) on one page      *)
(* after the other.  An entry of page.get_images(full=True) is a tuple     *)
(* whose first item is the xref of the image; the images of a page have    *)
(* consecutive xrefs.                                                      *)
(***************************************************************************)
\* pdf_document.extract_image(xref): a dict with the bytes of that image
extract_image(xref) == [ext |-> "png", image |-> <<"bytes of", xref>>]

\* the cap applied from 20 images on
get_page_images_as_bytes_from_limit(page_images) ==
    IF Len(page_images) >= image_limit THEN <<>>
    ELSE [k \in 1..Len(page_images) |-> extract_image(page_images[k][1]).image]

\* lines 294-305
get_page_images_as_bytes(page_images) ==
    IF Len(page_images) > image_limit THEN <<>>
    ELSE [k \in 1..Len(page_images) |-> extract_image(page_images[k][1]).image]

\* line 294: images = page.get_images(full=True)
get_images(n, first) ==
    /\ image_pc = "get_images"
    /\ images' = [k \in 1..n |-> <<first + k - 1, "Im">>]
    /\ guideline_image_bytes_list' = <<>>
    /\ image_pc' = "extract"
    /\ UNCHANGED <<pipeline_vars, queue_vars>>

\* lines 295-305; the caller (93) goes on to the next page
return_images ==
    /\ image_pc = "extract"
    /\ guideline_image_bytes_list' = get_page_images_as_bytes(images)
    /\ image_pc' = "get_images"
    /\ UNCHANGED <<images, pipeline_vars, queue_vars>>

InitImages ==
    /\ conversations = [c \in ConvIds |-> NoConversation]
    /\ fs = [f \in {"g1", "d1"} |-> MissingFile]
    /\ InitRuns
    /\ write_failures = 0
    /\ images = <<>>
    /\ guideline_image_bytes_list = <<>>
    /\ image_pc = "get_images"
    /\ NoQueueManager

NextImages ==
    \/ \E n \in 0..MaxImages, first \in 1..MaxXref : get_images(n, first)
    \/ return_images

SpecImages == InitImages /\ [][NextImages]_vars

(***************************************************************************)
(* RateLimitedQueueManager (rate_limited_queue_manager.py) with one        *)
(* process_requests loop and any number of add_request calls.              *)
(* available_tokens is a float: it is counted here in 1/TokenUnit of a     *)
(* token, and the clock in the time in which rate_limit_rpm = 1            *)
(* regenerates one such fraction.                                          *)
(***************************************************************************)
\* line 20: min(self.max_tokens, self.available_tokens + regen_rate * elapsed)
regenerate(tokens, elapsed) ==
    LET regenerated == tokens + rate_limit_rpm * elapsed
        full == max_tokens * TokenUnit
    IN IF full < regenerated THEN full ELSE regenerated

\* lines 6-11, and process_requests is started
InitQueue ==
    /\ conversations = [c \in ConvIds |-> NoConversation]
    /\ fs = [f \in {"g1", "d1"} |-> MissingFile]
    /\ InitRuns
    /\ write_failures = 0
    /\ NoImageCall
    /\ rate_limit_rpm \in 0..MaxRate
    /\ max_tokens \in 0..MaxTokens
    /\ queue = <<>>
    /\ now = 0
    /\ last_checked = now
    /\ available_tokens = max_tokens * TokenUnit
    /\ queue_pc = "loop"

\* time passes
tick ==
    /\ queue_pc # "off"
    /\ now < MaxTime
    /\ now' = now + 1
    /\ UNCHANGED <<rate_limit_rpm, max_tokens, queue, last_checked,
                   available_tokens, queue_pc, pipeline_vars, image_vars>>

\* lines 36-37: the queue is unbounded, put never waits
add_request ==
    /\ queue_pc # "off"
    /\ Len(queue) < MaxQueue
    /\ queue' = Append(queue, "request_callable")
    /\ UNCHANGED <<rate_limit_rpm, max_tokens, last_checked, available_tokens,
                   now, queue_pc, pipeline_vars, image_vars>>

\* lines 15-28: regenerate, test, and either take a request from the queue
\* and call it, or go to sleep
process_requests ==
    /\ queue_pc = "loop"
    /\ available_tokens' = regenerate(available_tokens, now - last_checked)
    /\ last_checked' = now
    /\ IF queue # <<>> /\ available_tokens' >= TokenUnit
       THEN /\ queue' = Tail(queue)
            /\ queue_pc' = "request"
       ELSE /\ queue_pc' = "sleep"
            /\ UNCHANGED queue
    /\ UNCHANGED <<rate_limit_rpm, max_tokens, now, pipeline_vars, image_vars>>

\* lines 28-34: the request returns, its token is deducted
request_returns ==
    /\ queue_pc = "request"
    /\ available_tokens' = available_tokens - TokenUnit
    /\ queue_pc' = "sleep"
    /\ UNCHANGED <<rate_limit_rpm, max_tokens, queue, last_checked, now,
                   pipeline_vars, image_vars>>

\* line 28 raises: nothing catches it, the loop ends
request_raises ==
    /\ queue_pc = "request"
    /\ queue_pc' = "stopped"
    /\ UNCHANGED <<rate_limit_rpm, max_tokens, queue, last_checked,
                   available_tokens, now, pipeline_vars, image_vars>>

\* line 34: asyncio.sleep(0.1) returns
sleep_returns ==
    /\ queue_pc = "sleep"
    /\ queue_pc' = "loop"
    /\ UNCHANGED <<rate_limit_rpm, max_tokens, queue, last_checked,
                   available_tokens, now, pipeline_vars, image_vars>>

NextQueue ==
    \/ tick
    \/ add_request
    \/ process_requests
    \/ request_returns
    \/ request_raises
    \/ sleep_returns

SpecQueue == InitQueue /\ [][NextQueue]_vars

(***************************************************************************)
(* Properties.                                                             *)
(***************************************************************************)
Terminal == {COMPLETE, FAILED}

\* the Reviews a run has written, in insertion order
ReviewsOf(r) == SelectSeq(reviews, LAMBDA v : v.written_by = r)

\* page count of the guideline document run r works on
PageCount(r) == fs[conversation[r].guidelines_id].pages

\* C1: once the stored status of a Task is COMPLETE or FAILED, no step of
\* any run changes it again.
C1_StatusMonotonic ==
    [][\A t \in Runs :
          tasks[t].status \in Terminal => tasks'[t].status = tasks[t].status]_vars

\* C2: when insert_to_rag fails after the report was stored and the Task was
\* saved as COMPLETE, the stored status of the Task stays COMPLETE.
C2_IndexingFailureKeepsComplete ==
    [][\A r \in Runs :
          (pc[r] = "insert_to_rag" /\ tasks[r].status = COMPLETE
             /\ r \in DOMAIN fs_generated /\ pc'[r] = "done")
          => tasks'[r].status = COMPLETE]_vars

\* C3: a run one of whose page tasks failed never has its Task stored as
\* COMPLETE, and once that run has ended its Task is stored as FAILED,
\* whatever the other page tasks did and in whatever order.
C3_PageFailureFailsRun ==
    \A r \in Runs :
        (\E i \in DOMAIN page_tasks[r] : page_tasks[r][i].state = "failed")
        => /\ tasks[r].status # COMPLETE
           /\ pc[r] = "done" => tasks[r].status = FAILED

C3_Witness ==
    \E r \in Runs :
        /\ pc[r] = "done"
        /\ tasks[r].status = FAILED
        /\ \E i, j \in DOMAIN page_tasks[r] :
              /\ i < j
              /\ page_tasks[r][i].state = "done"
              /\ page_tasks[r][j].state = "failed"

\* C4: while the Task of a run on a guideline document of P pages is stored
\* as COMPLETE, the Reviews that run wrote are exactly P and their
\* page_number values are exactly 0..P-1.
C4_OneReviewPerPage ==
    \A r \in Runs :
        tasks[r].status = COMPLETE
        => /\ Len(ReviewsOf(r)) = PageCount(r)
           /\ {ReviewsOf(r)[k].page_number : k \in 1..Len(ReviewsOf(r))}
                 = 0..(PageCount(r) - 1)

C4_Witness ==
    \E r \in Runs :
        /\ tasks[r].status = COMPLETE
        /\ PageCount(r) >= 2
        /\ Len(ReviewsOf(r)) = PageCount(r)

\* C5: the list the fan-out returns is strictly ascending by page_number,
\* whatever the completion order of the page tasks, and the stored report
\* has one block per entry of that list, in the order of the list.
C5_ResultsInPageOrder ==
    \A r \in Runs :
        LET results == inference_result_resources[r] IN
        /\ \A i, j \in 1..Len(results) :
              i < j => results[i].page_number < results[j].page_number
        /\ r \in DOMAIN fs_generated
           => fs_generated[r] = [i \in 1..Len(results) |-> Str(results[i])]

\* a report was stored although the last page completed before the first
C5_Witness ==
    \E r \in Runs :
        /\ r \in DOMAIN fs_generated
        /\ Len(inference_result_resources[r]) >= 2
        /\ done_order[r][1] = Len(done_order[r])

\* C6: a conversation never has two Tasks stored as IN_PROGRESS at once,
\* however two start_processing calls for it are interleaved.
C6_OneTaskInProgress ==
    \A cid \in ConvIds :
        Cardinality({t \in Runs : /\ tasks[t].exists
                                  /\ tasks[t].conversation_id = cid
                                  /\ tasks[t].status = IN_PROGRESS}) <= 1

\* the conversation a run read lacks a guideline or a design reference, or
\* one of the two blobs it names is not in the blob store
MissingReference(r) ==
    /\ pc[r] \notin {"idle", "find_conversation"}
    /\ conversation[r].exists
    /\ conversation[r].guidelines_id # NoAttr
    /\ \/ conversation[r].guidelines_id = None
       \/ conversation[r].design_id = None
       \/ fs[conversation[r].guidelines_id].kind = "missing"
       \/ fs[conversation[r].design_id].kind = "missing"

\* C7: a run on a conversation without a guideline or design reference, or
\* whose referenced blob is not found, dispatches no page task, makes no
\* inference call, writes no Review, never has its Task stored as COMPLETE,
\* and once it has ended its Task is stored as FAILED.
C7_MissingReferenceFailsWithoutPages ==
    \A r \in Runs :
        MissingReference(r)
        => /\ page_tasks[r] = <<>>
           /\ ReviewsOf(r) = <<>>
           /\ tasks[r].status # COMPLETE
           /\ pc[r] = "done" => tasks[r].status = FAILED

\* both references are set, the design blob is missing, the run has ended
C7_Witness ==
    \E r \in Runs :
        /\ MissingReference(r)
        /\ conversation[r].guidelines_id # None
        /\ conversation[r].design_id # None
        /\ fs[conversation[r].guidelines_id].kind = "pdf"
        /\ fs[conversation[r].guidelines_id].pages >= 1
        /\ pc[r] = "done"
        /\ tasks[r].status = FAILED

\* C8 as stated: a Task is stored only for a conversation id that resolves
\* to a stored Conversation.
C8_TaskOnlyForResolvedConversation ==
    \A t \in Runs :
        tasks[t].exists => conversations[tasks[t].conversation_id].exists

\* C8 amended: create_task stores a Task for every run, whether or not the
\* conversation id resolves; when it resolves to no Conversation the Task is
\* IN_PROGRESS until the run's next step, which stores it as FAILED and ends
\* the run without a page task and without a Review.
C8_UnresolvedConversationTaskFailed ==
    \A r \in Runs :
        /\ pc[r] \notin {"idle", "find_conversation", "create_task"}
           => tasks[r].exists /\ tasks[r].conversation_id = conversation_id[r]
        /\ (tasks[r].exists /\ ~conversation[r].exists)
           => /\ \/ pc[r] = "check_references" /\ tasks[r].status = IN_PROGRESS
                 \/ pc[r] = "done" /\ tasks[r].status = FAILED
              /\ page_tasks[r] = <<>>
              /\ ReviewsOf(r) = <<>>

C8_Witness ==
    \E r \in Runs :
        /\ tasks[r].exists
        /\ ~conversations[tasks[r].conversation_id].exists
        /\ pc[r] = "done"
        /\ tasks[r].status = FAILED

\* C9: a run whose references resolved, whose document of P >= 1 pages was
\* extracted and whose P page tasks all returned a verdict has, once it has
\* ended, its Task stored as COMPLETE with a report reference.
C9_HappyPathEndsComplete ==
    \A r \in Runs :
        (/\ pc[r] = "done"
         /\ Len(page_tasks[r]) >= 1
         /\ all_returned(page_tasks[r]))
        => /\ tasks[r].status = COMPLETE
           /\ tasks[r].generated_txt_id # NoId

\* the Task a conversation currently points at
CurrentTask(cid) == tasks[conversations[cid].design_process_task_id]

HasCurrentTask(cid) ==
    /\ conversations[cid].exists
    /\ conversations[cid].design_process_task_id # NoId

\* C10: for a conversation whose current Task is FAILED, process_status
\* reports the failure: the status code of its response, which is what
\* tells IN_PROGRESS (202) from COMPLETE (200), is neither of those two.
C10_StatusReportsFailed ==
    \A cid \in ConvIds :
        (HasCurrentTask(cid) /\ CurrentTask(cid).status = FAILED)
        => process_status(cid).status_code \notin {200, 202}

C14_ReviewsSurviveFailure ==
    [][/\ \A k \in 1..Len(reviews) :
             k <= Len(reviews') /\ reviews'[k] = reviews[k]
       /\ \A r \in Runs :
             (tasks[r].status # FAILED /\ tasks'[r].status = FAILED)
             => reviews' = reviews]_vars

\* a run failed on one page after two other pages had written their Reviews
C14_Witness ==
    \E r \in Runs :
        /\ tasks[r].status = FAILED
        /\ \E i \in DOMAIN page_tasks[r] : page_tasks[r][i].state = "failed"
        /\ Len(ReviewsOf(r)) >= 2

\* the directive markers of the applicability rule: "must", "shall",
\* "required", "may not", "prohibited"; of the page texts explored only this
\* one contains any
HasDirectiveMarker(text) == text = "The logo must not be altered"

\* C15 as stated: the Review of a page whose text has no directive marker
\* has guideline_achieved = None, whatever the inference call returned.
C15_NoMarkerPageNotApplicable ==
    \A k \in 1..Len(reviews) :
        ~HasDirectiveMarker(PageText(reviews[k].page_number))
        => reviews[k].guideline_achieved = None

\* C15 amended: the Review of every page, a page without directive marker
\* included, carries the verdict the inference call returned for that page;
\* it is None exactly when the call returned None.
C15_ReviewCarriesReturnedVerdict ==
    \A k \in 1..Len(reviews) :
        \E i \in DOMAIN page_tasks[reviews[k].written_by] :
            LET p == page_tasks[reviews[k].written_by][i] IN
            /\ p.page_number = reviews[k].page_number
            /\ p.state = "done"
            /\ reviews[k].guideline_achieved = p.content

\* the inference call returned None for a page without directive marker
\* and False for another one
C15_Witness ==
    \E j, k \in 1..Len(reviews) :
        /\ ~HasDirectiveMarker(PageText(reviews[j].page_number))
        /\ ~HasDirectiveMarker(PageText(reviews[k].page_number))
        /\ reviews[j].guideline_achieved = None
        /\ reviews[k].guideline_achieved = "False"

\* a page task that has been dispatched and has neither returned nor raised
InFlight(r) ==
    {i \in DOMAIN page_tasks[r] : page_tasks[r][i].state \in {"infer", "save"}}

\* C16: the Task of a run is stored as COMPLETE or FAILED only after every
\* page task the run dispatched has finished.
C16_JoinWaitsForAllPages ==
    \A r \in Runs : tasks[r].status \in Terminal => InFlight(r) = {}

\* C17: no operation on the parsed-document handle (open, load a page, read
\* text or images, close) is performed while a page task of the run is in
\* flight.
C17_HandleUnusedDuringFanOut ==
    [][\A r \in Runs : doc'[r] # doc[r] => InFlight(r) = {}]_vars

\* C18: a permanent inference failure (malformed request, authentication) is
\* not retried: once an attempt raised it, the page task has failed and no
\* further attempt is pending.
C18_PermanentFailureNotRetried ==
    \A r \in Runs : \A i \in DOMAIN page_tasks[r] :
       page_tasks[r][i].last_error = "permanent" => page_tasks[r][i].state = "failed"

\* C19: for one page the inference call is attempted at most 6 times: the
\* attempt count never exceeds 6, and once the 6th attempt has failed the page
\* task has failed and no further attempt is pending.
C19_AtMostSixAttempts ==
    \A r \in Runs : \A i \in DOMAIN page_tasks[r] :
       /\ page_tasks[r][i].attempt_number <= stop_after_attempt
       /\ page_tasks[r][i].attempt_number = stop_after_attempt
          => page_tasks[r][i].state = "failed"

\* a page task whose 6th attempt raised, and which failed
C19_Witness ==
    \E r \in Runs : \E i \in DOMAIN page_tasks[r] :
       /\ page_tasks[r][i].attempt_number = stop_after_attempt
       /\ page_tasks[r][i].last_error \in Errors
       /\ page_tasks[r][i].state = "failed"

\* the Reviews run r wrote for the page of its page task i
PageReviews(r, i) ==
    SelectSeq(ReviewsOf(r), LAMBDA v : v.page_number = page_tasks[r][i].page_number)

\* C20: a page task has written exactly one Review for its page once its
\* inference call returned a verdict and process_page_content returned, and
\* no Review while the call is pending, failed or returned no parsed content.
C20_OneReviewPerReturnedVerdict ==
    \A r \in Runs : \A i \in DOMAIN page_tasks[r] :
       Len(PageReviews(r, i)) = IF page_tasks[r][i].state = "done" THEN 1 ELSE 0

\* a run one page task of which wrote its Review and another failed
C20_Witness ==
    \E r \in Runs : \E i, j \in DOMAIN page_tasks[r] :
       /\ page_tasks[r][i].state = "done"
       /\ Len(PageReviews(r, i)) = 1
       /\ page_tasks[r][j].state = "failed"
       /\ Len(PageReviews(r, j)) = 0

\* C21: the step of a run in which a store write raises and the run ends
\* leaves the run's Task stored as FAILED, and no run that has ended has its
\* Task stored as IN_PROGRESS.
C21_WriteFailureFailsTask ==
    [][\A r \in Runs :
          /\ (/\ write_failures' < write_failures
              /\ pc[r] # "done" /\ pc'[r] = "done"
              /\ tasks[r].exists)
             => tasks'[r].status = FAILED
          /\ (pc'[r] = "done" /\ tasks'[r].exists)
             => tasks'[r].status # IN_PROGRESS]_vars

\* run r read both blobs and the guideline document could not be opened
\* (fitz.open raised) or parsed (the table extractor raised, which is the
\* one path that closes the handle without a page list)
CannotParse(r) ==
    /\ pc[r] \in {"dispatch", "gather", "insert_to_rag", "done"}
    /\ conversation[r].exists
    /\ conversation[r].guidelines_id \notin {None, NoAttr}
    /\ conversation[r].design_id # None
    /\ FilesFound(r)
    /\ \/ fs[conversation[r].guidelines_id].kind = "corrupt"
       \/ doc[r] = "closed" /\ page_data_list[r] = <<>>

\* C22: a run whose guideline document cannot be opened or parsed dispatches
\* no page task, writes no Review, never has its Task stored as COMPLETE and
\* has ended with its Task stored as FAILED.
C22_UnparsableDocumentFailsWithoutPages ==
    \A r \in Runs :
        CannotParse(r)
        => /\ page_tasks[r] = <<>>
           /\ ReviewsOf(r) = <<>>
           /\ pc[r] = "done"
           /\ tasks[r].status = FAILED

\* a run on a corrupt document has ended: no handle was opened
C22_Witness ==
    \E r \in Runs :
        /\ CannotParse(r)
        /\ fs[conversation[r].guidelines_id].kind = "corrupt"
        /\ doc[r] = "unopened"
        /\ tasks[r].status = FAILED

\* C23: in every stored report the block of the page with page_number n
\* shows n, for every n in 0..P-1, page 0 included.
C23_BlockShowsPageNumber ==
    \A r \in DOMAIN fs_generated :
        \A i \in 1..Len(fs_generated[r]) :
            fs_generated[r][i].page_number =
                ToString(inference_result_resources[r][i].page_number)

\* C24: in every stored report two pages whose inferred verdicts differ
\* (True, False, None) have different verdict texts: a None page cannot be
\* read as a False page.
C24_VerdictsToldApart ==
    \A r \in DOMAIN fs_generated :
        \A i, j \in 1..Len(fs_generated[r]) :
            inference_result_resources[r][i].inference_response
                  # inference_result_resources[r][j].inference_response
            => fs_generated[r][i].review_achieved
                  # fs_generated[r][j].review_achieved

\* C25: when get_page_images_as_bytes has returned for a page, its result is
\* the empty list if the page has more than 20 embedded images, and otherwise
\* (20 included) the bytes of every embedded image of the page, in the order
\* of the page.
C25_ImageCap ==
    image_pc = "get_images"
    => IF Len(images) > 20
       THEN guideline_image_bytes_list = <<>>
       ELSE /\ Len(guideline_image_bytes_list) = Len(images)
            /\ \A k \in 1..Len(images) :
                  guideline_image_bytes_list[k] = <<"bytes of", images[k][1]>>

\* the call has returned the 20 images of a page that has exactly 20
C25_Witness ==
    /\ image_pc = "get_images"
    /\ Len(images) = 20
    /\ Len(guideline_image_bytes_list) = 20

\* C26: every Task that is stored as IN_PROGRESS is eventually stored as
\* COMPLETE or FAILED, when every awaited call returns or raises.
C26_EveryTaskTerminates ==
    \A r \in Runs : tasks[r].status = IN_PROGRESS ~> tasks[r].status \in Terminal

\* the Tasks stored for a conversation
TasksOf(cid) ==
    {t \in Runs : tasks[t].exists /\ tasks[t].conversation_id = cid}

\* the one of them that was created last
LatestTask(cid) ==
    CHOOSE t \in TasksOf(cid) :
        \A u \in TasksOf(cid) : tasks[u].created_at <= tasks[t].created_at

\* C27: once every run started for a stored conversation has ended, the
\* conversation's design_process_task_id is the id of the Task created last
\* for it, also when that run failed on a missing reference.
C27_CurrentTaskIsLatest ==
    \A cid \in ConvIds :
        (/\ conversations[cid].exists
         /\ TasksOf(cid) # {}
         /\ \A r \in Runs : conversation_id[r] = cid => pc[r] = "done")
        => conversations[cid].design_process_task_id = tasks[LatestTask(cid)].id

\* C28: a stored Task has a report reference exactly when its status is
\* COMPLETE.
C28_ReportReferenceIffComplete ==
    \A t \in Runs :
        tasks[t].exists
        => (tasks[t].generated_txt_id # NoId <=> tasks[t].status = COMPLETE)

\* run r found both blobs and its guideline document is a PDF without pages
ZeroPages(r) ==
    /\ pc[r] \in {"dispatch", "gather", "insert_to_rag", "done"}
    /\ conversation[r].exists
    /\ conversation[r].guidelines_id \notin {None, NoAttr}
    /\ conversation[r].design_id # None
    /\ FilesFound(r)
    /\ fs[conversation[r].guidelines_id] = [kind |-> "pdf", pages |-> 0]

\* C29: a run on a guideline document with zero pages stores no report blob,
\* writes no Review, never has its Task stored as COMPLETE, and once it has
\* ended its Task is stored as FAILED.
C29_ZeroPagesFails ==
    \A r \in Runs :
        ZeroPages(r)
        => /\ r \notin DOMAIN fs_generated
           /\ ReviewsOf(r) = <<>>
           /\ tasks[r].status # COMPLETE
           /\ pc[r] = "done" => tasks[r].status = FAILED

\* the document was opened and extracted, gather returned the empty list,
\* and the run has ended
C29_Witness ==
    \E r \in Runs :
        /\ ZeroPages(r)
        /\ doc[r] = "open"
        /\ pc[r] = "done"
        /\ tasks[r].status = FAILED

\* C30: available_tokens is always within 0..max_tokens; a request is taken
\* from the queue and executed only when available_tokens >= 1; and every
\* executed request consumes exactly one token.
C30_TokenBucket ==
    [][/\ 0 <= available_tokens' /\ available_tokens' <= max_tokens' * TokenUnit
       /\ Len(queue') < Len(queue) => available_tokens' >= TokenUnit
       /\ queue_pc' = "request" => available_tokens' >= TokenUnit
       /\ (queue_pc = "request" /\ queue_pc' # "request")
          => available_tokens' = available_tokens - TokenUnit]_vars

====
